---- MODULE Spec2Model ----
(***************************************************************************)
(* Model of lutris/util/wine/prefix.py: WinePrefixManager.                 *)
(*                                                                         *)
(* The desktop-folder state machine (enable_desktop_integration_sandbox,  *)
(* enable_desktop_disintegration, restore_desktop_integration) acts on    *)
(* the guest folders <user_dir>/<name>, their <name>.winecfg backups, the *)
(* directories made inside the target directory and the marker file       *)
(* .lutris_destkop_integration.  set_dpi acts on two registry values and  *)
(* the marker file .lutris_dpi_assignment.  get_registry_path and         *)
(* get_key_path route a key address to a hive file and a key path;        *)
(* get/set/clear_registry_key and override_dll go through them.           *)
(* create_user_symlinks acts on the two profile paths under drive_c/users. *)
(*                                                                         *)
(* A path is a sequence of components, the empty sequence being the empty *)
(* string; os.path.join(d, name) is Append(d, name).  A key address and a *)
(* DLL override mode are sequences of characters.                          *)
(***************************************************************************)
EXTENDS Integers, Sequences, FiniteSets, TLC

VARIABLES
    userDirExists,  \* system.path_exists(user_dir)
    shell,          \* user.reg, key Shell Folders: DESKTOP_KEYS index -> value
    xdg,            \* get_xdg_entry: DESKTOP_XDG index -> host path, <<>> when none
    folder,         \* what is at <user_dir>/<name>, by folder name
    safe,           \* what is at <user_dir>/<name>.winecfg, by folder name
    made,           \* directories that exist under the target directories
    marker,         \* contents of .lutris_destkop_integration, <<>> when absent
    pc,             \* the call in progress: [op, arg, items, i, ph]
    muts,           \* filesystem mutations made so far by the last call
    raised,         \* whether the last call ended by raising OSError
    call,           \* the last call made: [op, arg]
    clean,          \* whether no call so far ended by raising
    interrupted,    \* whether the call in progress was interrupted and re-made
    expect,         \* what the call in progress leaves when it is not interrupted
    reg,            \* the hive files: <<file, key path, value name>> -> value
    dpiMarker,      \* the file .lutris_dpi_assignment: [exists, text]
    dpiCall,        \* the last DPI operation and the one before: [op, dpi, prev]
    regCall,        \* the last registry operation: [op, key, subkey, value, raised, opened]
    users,          \* what is at drive_c/users/<user> (wine) and .../steamuser (proton)
    usersCall,      \* the last operation on the profiles and the one before: [op, raised, prev]
    dpiPc           \* the set_dpi call in progress: [dpi, ph, k, from]

envVars  == <<userDirExists, shell, xdg>>
fsVars   == <<folder, safe, made, marker>>
histVars == <<pc, muts, raised, call, clean, interrupted, expect>>
dpiVars  == <<reg, dpiMarker, dpiCall>>
moreVars == <<regCall, users, usersCall, dpiPc>>
vars     == <<userDirExists, shell, xdg, folder, safe, made, marker, pc, muts,
              raised, call, clean, interrupted, expect, reg, dpiMarker, dpiCall,
              regCall, users, usersCall, dpiPc>>

----------------------------------------------------------------------------
(* Bounds of the model *)

\* number of distinct sandbox target directories a caller passes
MaxSandbox == 2
\* number of guest folders that start in another state than an empty directory
MaxDirty == 1

----------------------------------------------------------------------------
(* Module constants of prefix.py *)

DESKTOP_KEYS == <<"Desktop", "Personal", "My Music", "My Videos", "My Pictures">>
DEFAULT_DESKTOP_FOLDERS == <<"Desktop", "Documents", "Music", "Videos", "Pictures">>
DESKTOP_XDG == <<"DESKTOP", "DOCUMENTS", "MUSIC", "VIDEOS", "PICTURES">>

Names == {DEFAULT_DESKTOP_FOLDERS[k] : k \in 1..Len(DEFAULT_DESKTOP_FOLDERS)}

\* self.user_dir, os.path.expanduser("~")
UserDir == <<"prefix", "drive_c", "users", "user">>
HomeDir == <<"home", "user">>
NoPath  == <<>>

SandboxNames == <<"sandbox1", "sandbox2", "sandbox3">>
Sandboxes == {<<"tmp", SandboxNames[k]>> : k \in 1..MaxSandbox}

\* os.path.expanduser: a leading "~" component becomes the home directory
expanduser(d) ==
    IF d # NoPath /\ Head(d) = "~" THEN HomeDir \o Tail(d) ELSE d

join(d, name) == Append(d, name)

----------------------------------------------------------------------------
(* Filesystem entries *)

None    == [kind |-> "none", files |-> {}, target |-> NoPath]
Dir(fs) == [kind |-> "dir", files |-> fs, target |-> NoPath]
Link(t) == [kind |-> "link", files |-> {}, target |-> t]

islink(e) == e.kind = "link"
isdir(e)  == e.kind = "dir"

----------------------------------------------------------------------------
(* get_desktop_folders: the names of the lookups that succeed, in order,  *)
(* or the built-in defaults when none does.  A registry value is a        *)
(* Windows path, a sequence of components separated by backslashes; the   *)
(* name is what follows the last backslash.                                *)

RECURSIVE LoadedFolders(_, _)
LoadedFolders(sh, k) ==
    IF k > Len(DESKTOP_KEYS) THEN <<>>
    ELSE IF sh[k] = <<>> THEN LoadedFolders(sh, k + 1)
    ELSE <<sh[k][Len(sh[k])]>> \o LoadedFolders(sh, k + 1)

get_desktop_folders(sh) ==
    LET desktop_folders == LoadedFolders(sh, 1)
    IN  IF desktop_folders # <<>> THEN desktop_folders ELSE DEFAULT_DESKTOP_FOLDERS

----------------------------------------------------------------------------
(* A call in progress is a record x: the filesystem it acts on (folder,   *)
(* safe, made, marker), its counters (muts, raised) and its position      *)
(* (op, arg, items, i, ph).  Every operator below performs at most one    *)
(* mutating system call.                                                   *)

\* a remove-or-backup step that renames onto the backup whatever it holds
remove_desktop_folder_overwrite(x, n) ==
    IF islink(x.folder[n]) \/ (isdir(x.folder[n]) /\ x.folder[n].files = {})
    THEN [x EXCEPT !.folder[n] = None, !.muts = @ + 1]
    ELSE IF isdir(x.folder[n])
    THEN [x EXCEPT !.safe[n] = x.folder[n], !.folder[n] = None, !.muts = @ + 1]
    ELSE x

\* _remove_desktop_folder(path, safe_path)
remove_desktop_folder(x, n) ==
    IF islink(x.folder[n]) THEN
        \* os.unlink(path)
        [x EXCEPT !.folder[n] = None, !.muts = @ + 1]
    ELSE IF isdir(x.folder[n]) THEN
        IF x.folder[n].files = {} THEN
            \* os.rmdir(path)
            [x EXCEPT !.folder[n] = None, !.muts = @ + 1]
        ELSE IF x.safe[n].kind = "none" \/ (isdir(x.safe[n]) /\ x.safe[n].files = {}) THEN
            \* os.rename(path, safe_path): an empty directory is replaced
            [x EXCEPT !.safe[n] = x.folder[n], !.folder[n] = None, !.muts = @ + 1]
        ELSE
            \* os.rename onto a non-empty directory: OSError, not caught
            [x EXCEPT !.raised = TRUE]
    ELSE x

\* a makedirs that makes nothing
makedirs_nothing(x, p) == x

\* os.makedirs(src_path, exist_ok=True)
makedirs(x, p) ==
    IF p \in x.made THEN x ELSE [x EXCEPT !.made = @ \cup {p}, !.muts = @ + 1]

\* os.symlink(src_path, path)
symlink(x, t, n) ==
    IF x.folder[n].kind # "none" THEN [x EXCEPT !.raised = TRUE]
    ELSE [x EXCEPT !.folder[n] = Link(t), !.muts = @ + 1]

\* _set_desktop_integration_assignment(desktop_dir); the file is rewritten
\* also when it holds the same text
set_desktop_integration_assignment(x, d) ==
    IF d # NoPath THEN [x EXCEPT !.marker = d, !.muts = @ + 1]
    ELSE IF x.marker # NoPath THEN [x EXCEPT !.marker = NoPath, !.muts = @ + 1]
    ELSE x

\* _get_desktop_integration_assignment()
get_desktop_integration_assignment(x) == x.marker

\* the position after item i of the loop
NextItem(x) ==
    IF x.i < Len(x.items) THEN [x EXCEPT !.i = @ + 1, !.ph = "remove"]
    ELSE [x EXCEPT !.ph = "mark"]

\* a guard that does not look at the assignment marker
Enter_unmarked(x, target) ==
    IF userDirExists
    THEN [x EXCEPT !.items = get_desktop_folders(shell), !.i = 1, !.ph = "remove"]
    ELSE [x EXCEPT !.ph = "done"]

\* the guard of the three operations, and the folder list they loop over
Enter(x, target) ==
    IF userDirExists /\ get_desktop_integration_assignment(x) # target
    THEN [x EXCEPT !.items = get_desktop_folders(shell), !.i = 1, !.ph = "remove"]
    ELSE [x EXCEPT !.ph = "done"]

\* a sandbox transition that does not record its target
SandboxStep_unrecorded(x) ==
    LET item == x.items[x.i]
    IN  CASE x.ph = "check"   -> Enter(x, x.arg)
          [] x.ph = "remove"  -> [remove_desktop_folder(x, item) EXCEPT !.ph = "mkdir"]
          [] x.ph = "mkdir"   -> [makedirs(x, join(x.arg, item)) EXCEPT !.ph = "symlink"]
          [] x.ph = "symlink" -> NextItem(symlink(x, join(x.arg, item), item))
          [] x.ph = "mark"    -> [x EXCEPT !.ph = "done"]

\* enable_desktop_integration_sandbox, desktop_dir # user_dir: one step
SandboxStep(x) ==
    LET item == x.items[x.i]
    IN  CASE x.ph = "check"   -> Enter(x, x.arg)
          [] x.ph = "remove"  -> [remove_desktop_folder(x, item) EXCEPT !.ph = "mkdir"]
          [] x.ph = "mkdir"   -> [makedirs(x, join(x.arg, item)) EXCEPT !.ph = "symlink"]
          [] x.ph = "symlink" -> NextItem(symlink(x, join(x.arg, item), item))
          [] x.ph = "mark"    -> [set_desktop_integration_assignment(x, x.arg)
                                    EXCEPT !.ph = "done"]

\* a disintegration that also replaces what is not a link
DisintegrateStep_alldirs(x) ==
    LET item == x.items[x.i]
    IN  CASE x.ph = "check"   -> Enter(x, UserDir)
          [] x.ph = "remove"  -> [remove_desktop_folder(x, item) EXCEPT !.ph = "restore"]
          [] x.ph = "restore" ->
                IF isdir(x.safe[item]) THEN
                    NextItem([x EXCEPT !.folder[item] = x.safe[item],
                                       !.safe[item] = None, !.muts = @ + 1])
                ELSE NextItem([x EXCEPT !.folder[item] = Dir({}), !.muts = @ + 1])
          [] x.ph = "mark"    -> [set_desktop_integration_assignment(x, UserDir)
                                    EXCEPT !.ph = "done"]

\* a disintegration that never restores the saved directory
DisintegrateStep_fresh(x) ==
    LET item == x.items[x.i]
    IN  CASE x.ph = "check"   -> Enter(x, UserDir)
          [] x.ph = "remove"  ->
                IF ~islink(x.folder[item]) THEN NextItem(x)
                ELSE [remove_desktop_folder(x, item) EXCEPT !.ph = "restore"]
          [] x.ph = "restore" ->
                NextItem([x EXCEPT !.folder[item] = Dir({}), !.muts = @ + 1])
          [] x.ph = "mark"    -> [set_desktop_integration_assignment(x, UserDir)
                                    EXCEPT !.ph = "done"]

\* a disintegration that skips real directories only, and makes a directory
\* where it finds nothing
DisintegrateStep_missing(x) ==
    LET item == x.items[x.i]
    IN  CASE x.ph = "check"   -> Enter(x, UserDir)
          [] x.ph = "remove"  ->
                IF isdir(x.folder[item]) THEN NextItem(x)
                ELSE [remove_desktop_folder(x, item) EXCEPT !.ph = "restore"]
          [] x.ph = "restore" ->
                IF isdir(x.safe[item]) THEN
                    NextItem([x EXCEPT !.folder[item] = x.safe[item],
                                       !.safe[item] = None, !.muts = @ + 1])
                ELSE NextItem([x EXCEPT !.folder[item] = Dir({}), !.muts = @ + 1])
          [] x.ph = "mark"    -> [set_desktop_integration_assignment(x, UserDir)
                                    EXCEPT !.ph = "done"]

\* enable_desktop_disintegration: one step
DisintegrateStep(x) ==
    LET item == x.items[x.i]
    IN  CASE x.ph = "check"   -> Enter(x, UserDir)
          [] x.ph = "remove"  ->
                IF ~islink(x.folder[item]) THEN NextItem(x)
                ELSE [remove_desktop_folder(x, item) EXCEPT !.ph = "restore"]
          [] x.ph = "restore" ->
                IF isdir(x.safe[item]) THEN
                    \* os.rename(safe_path, path)
                    NextItem([x EXCEPT !.folder[item] = x.safe[item],
                                       !.safe[item] = None, !.muts = @ + 1])
                ELSE IF isdir(x.folder[item]) THEN NextItem(x)
                ELSE
                    \* os.makedirs(path, exist_ok=True)
                    NextItem([x EXCEPT !.folder[item] = Dir({}), !.muts = @ + 1])
          [] x.ph = "mark"    -> [set_desktop_integration_assignment(x, UserDir)
                                    EXCEPT !.ph = "done"]

\* a restoration that stops at the first folder with no host path
RestoreStep_abort(x) ==
    LET item == x.items[x.i]
        src_path == xdg[x.i]
    IN  CASE x.ph = "check"   -> Enter(x, HomeDir)
          [] x.ph = "remove"  -> [remove_desktop_folder(x, item) EXCEPT !.ph = "symlink"]
          [] x.ph = "symlink" ->
                IF src_path = NoPath THEN [x EXCEPT !.ph = "mark"]
                ELSE NextItem(symlink(x, src_path, item))
          [] x.ph = "mark"    -> [set_desktop_integration_assignment(x, HomeDir)
                                    EXCEPT !.ph = "done"]

\* restore_desktop_integration: one step
RestoreStep(x) ==
    LET item == x.items[x.i]
        src_path == xdg[x.i]
    IN  CASE x.ph = "check"   -> Enter(x, HomeDir)
          [] x.ph = "remove"  -> [remove_desktop_folder(x, item) EXCEPT !.ph = "symlink"]
          [] x.ph = "symlink" ->
                IF src_path = NoPath THEN NextItem(x)
                ELSE NextItem(symlink(x, src_path, item))
          [] x.ph = "mark"    -> [set_desktop_integration_assignment(x, HomeDir)
                                    EXCEPT !.ph = "done"]

\* a resolution that also takes the home directory for the user directory
Resolve_home(op, arg) ==
    IF op = "sandbox" THEN
        LET desktop_dir == IF arg # NoPath THEN expanduser(arg) ELSE UserDir
        IN  IF desktop_dir \in {UserDir, HomeDir}
            THEN [op |-> "disintegrate", arg |-> UserDir]
            ELSE [op |-> "sandbox", arg |-> desktop_dir]
    ELSE IF op = "disintegrate" THEN [op |-> "disintegrate", arg |-> UserDir]
    ELSE [op |-> "restore", arg |-> HomeDir]

\* the operation a call of enable_desktop_integration_sandbox(desktop_dir) runs
\* and its target: the falsy and the user_dir argument run the disintegration
Resolve(op, arg) ==
    IF op = "sandbox" THEN
        LET desktop_dir == IF arg # NoPath THEN expanduser(arg) ELSE UserDir
        IN  IF desktop_dir = UserDir THEN [op |-> "disintegrate", arg |-> UserDir]
            ELSE [op |-> "sandbox", arg |-> desktop_dir]
    ELSE IF op = "disintegrate" THEN [op |-> "disintegrate", arg |-> UserDir]
    ELSE [op |-> "restore", arg |-> HomeDir]

Step(x) ==
    CASE x.op = "sandbox"      -> SandboxStep(x)
      [] x.op = "disintegrate" -> DisintegrateStep(x)
      [] x.op = "restore"      -> RestoreStep(x)

Finished(x) == x.ph = "done" \/ x.raised

RECURSIVE Run(_)
Run(x) == IF Finished(x) THEN x ELSE Run(Step(x))

\* the call op(arg) about to start on the filesystem (f, s, md, mk)
Start(op, arg, f, s, md, mk) ==
    LET r == Resolve(op, arg)
    IN  [folder |-> f, safe |-> s, made |-> md, marker |-> mk,
         muts |-> 0, raised |-> FALSE,
         op |-> r.op, arg |-> r.arg, items |-> <<>>, i |-> 0, ph |-> "check"]

\* the three public operations, run to their end on the current filesystem
enable_desktop_integration_sandbox(desktop_dir) ==
    Run(Start("sandbox", desktop_dir, folder, safe, made, marker))
enable_desktop_disintegration ==
    Run(Start("disintegrate", NoPath, folder, safe, made, marker))
restore_desktop_integration ==
    Run(Start("restore", NoPath, folder, safe, made, marker))

----------------------------------------------------------------------------
(* The registry.  A key address is the sequence of its "/"-separated      *)
(* segments, the hive identifier first.  The hive store (WineRegistry) is *)
(* a map from key path and value name to value; a query of a value that   *)
(* is not there gives None, written <<>>, a value v is written <<v>>.     *)

\* A string that the code takes apart (startswith, slicing) is the sequence
\* of its characters.
startswith(s, prefix) ==
    /\ Len(s) >= Len(prefix)
    /\ SubSeq(s, 1, Len(prefix)) = prefix

\* s[k:]
From(s, k) == SubSeq(s, k + 1, Len(s))

Slash == <<"/">>

\* "HKEY_CURRENT_USER"
hkcu_prefix ==
    <<"H", "K", "E", "Y", "_", "C", "U", "R", "R", "E", "N", "T", "_", "U", "S", "E", "R">>
\* "HKEY_LOCAL_MACHINE"
hklm_prefix ==
    <<"H", "K", "E", "Y", "_", "L", "O", "C", "A", "L", "_", "M", "A", "C", "H", "I", "N", "E">>

\* "Software", "Wine", "Fonts", "Control Panel", "Desktop", "DllOverrides"
Software      == <<"S", "o", "f", "t", "w", "a", "r", "e">>
Wine          == <<"W", "i", "n", "e">>
Fonts         == <<"F", "o", "n", "t", "s">>
Control_Panel == <<"C", "o", "n", "t", "r", "o", "l", " ", "P", "a", "n", "e", "l">>
Desktop       == <<"D", "e", "s", "k", "t", "o", "p">>
DllOverrides  ==
    <<"D", "l", "l", "O", "v", "e", "r", "r", "i", "d", "e", "s">>

\* the ValueError of get_registry_path and get_key_path
ValueError == "ValueError"

\* a get_registry_path that takes every other key for a user key
get_registry_path_default(key) ==
    IF startswith(key, hklm_prefix) THEN "system.reg" ELSE "user.reg"

get_registry_path(key) ==
    IF startswith(key, hkcu_prefix) THEN "user.reg"
    ELSE IF startswith(key, hklm_prefix) THEN "system.reg"
    ELSE ValueError

get_key_path(key) ==
    IF startswith(key, hkcu_prefix) THEN From(key, Len(hkcu_prefix) + 1)
    ELSE IF startswith(key, hklm_prefix) THEN From(key, Len(hklm_prefix) + 1)
    ELSE <<ValueError>>

NoValues == [s \in {} |-> <<>>]

\* WineRegistry(path).query(key_path, subkey)
query(r, path, key_path, subkey) ==
    IF <<path, key_path, subkey>> \in DOMAIN r THEN <<r[<<path, key_path, subkey>>]>>
    ELSE <<>>

\* WineRegistry(path).set_value(key_path, subkey, value), then save()
set_value(r, path, key_path, subkey, value) ==
    [s \in DOMAIN r \cup {<<path, key_path, subkey>>} |->
        IF s = <<path, key_path, subkey>> THEN value ELSE r[s]]

\* WineRegistry(path).clear_key(key_path), then save()
clear_key(r, path, key_path) ==
    [s \in {t \in DOMAIN r : ~(t[1] = path /\ t[2] = key_path)} |-> r[s]]

\* the hive files that WineRegistry(...) opens for key: none when
\* get_registry_path raises
Opened(key) == {get_registry_path(key)} \ {ValueError}

\* <<>> for None; no hive is read when get_registry_path raises
get_registry_key(r, key, subkey) ==
    IF get_registry_path(key) = ValueError THEN <<>>
    ELSE query(r, get_registry_path(key), get_key_path(key), subkey)

\* nothing is written when get_registry_path raises
set_registry_key(r, key, subkey, value) ==
    IF get_registry_path(key) = ValueError THEN r
    ELSE set_value(r, get_registry_path(key), get_key_path(key), subkey, value)

clear_registry_key(r, key) ==
    IF get_registry_path(key) = ValueError THEN r
    ELSE clear_key(r, get_registry_path(key), get_key_path(key))

\* "dis", "bogus" and the modes of line 137
Dis            == <<"d", "i", "s">>
Disabled       == <<"d", "i", "s", "a", "b", "l", "e", "d">>
Bogus          == <<"b", "o", "g", "u", "s">>
ModeBuiltin == <<"b", "u", "i", "l", "t", "i", "n">>
ModeNative  == <<"n", "a", "t", "i", "v", "e">>
Builtin_Native ==
    <<"b", "u", "i", "l", "t", "i", "n", ",", "n", "a", "t", "i", "v", "e">>
Native_Builtin ==
    <<"n", "a", "t", "i", "v", "e", ",", "b", "u", "i", "l", "t", "i", "n">>
Empty          == <<>>
ValidModes     == {ModeBuiltin, ModeNative, Builtin_Native, Native_Builtin, Empty}

\* an override_dll that writes every mode
override_dll_any(r, dll, mode) ==
    LET key == hkcu_prefix \o Slash \o Software \o Slash \o Wine \o Slash \o DllOverrides
        m   == IF startswith(mode, Dis) THEN Empty ELSE mode
    IN  set_registry_key(r, key, dll, m)

override_dll(r, dll, mode) ==
    LET key == hkcu_prefix \o Slash \o Software \o Slash \o Wine \o Slash \o DllOverrides
        m   == IF startswith(mode, Dis) THEN Empty ELSE mode
    IN  IF m \notin ValidModes THEN r
        ELSE set_registry_key(r, key, dll, m)

----------------------------------------------------------------------------
(* create_user_symlinks.  us is what is at the two profile paths: nothing, *)
(* a directory, or a symlink.                                              *)

\* get_user_dir() and get_user_dir(default_user="steamuser")
ProfilePath == [wine |-> UserDir, proton |-> <<"prefix", "drive_c", "users", "steamuser">>]
Profiles == DOMAIN ProfilePath
Other(u) == IF u = "wine" THEN "proton" ELSE "wine"

\* the target of a link made while the prefix was at another path
StalePath == <<"old", "prefix", "drive_c", "users">>

\* os.path.exists: follows a symlink; false for one whose target is gone
exists(us, u) ==
    \/ isdir(us[u])
    \/ /\ islink(us[u])
       /\ us[u].target = ProfilePath[Other(u)]
       /\ isdir(us[Other(u)])

\* os.symlink(src, dst): FileExistsError when anything is at dst, a dangling
\* link included
user_symlink(us, src, dst) ==
    IF us[dst] # None THEN [users |-> us, raised |-> TRUE]
    ELSE [users |-> [us EXCEPT ![dst] = Link(ProfilePath[src])], raised |-> FALSE]

\* a create_user_symlinks that puts its link in place of whatever is there
create_user_symlinks_replace(us) ==
    IF exists(us, "wine") /\ ~exists(us, "proton") THEN
        [users |-> [us EXCEPT !["proton"] = Link(ProfilePath["wine"])], raised |-> FALSE]
    ELSE IF exists(us, "proton") /\ ~exists(us, "wine") THEN
        [users |-> [us EXCEPT !["wine"] = Link(ProfilePath["proton"])], raised |-> FALSE]
    ELSE [users |-> us, raised |-> FALSE]

create_user_symlinks(us) ==
    IF exists(us, "wine") /\ ~exists(us, "proton") THEN user_symlink(us, "wine", "proton")
    ELSE IF exists(us, "proton") /\ ~exists(us, "wine") THEN user_symlink(us, "proton", "wine")
    ELSE [users |-> us, raised |-> FALSE]

----------------------------------------------------------------------------
(* set_dpi.  The marker file holds str(dpi); int() reads it back and      *)
(* raises on a text that is no number.                                     *)

\* the falsy dpi, None, of set_dpi(None)
NoDPI == 0
\* the DPI that a reset assigns
DefaultDPI == 96

Digits == <<"0", "1", "2", "3", "4", "5", "6", "7", "8", "9">>

RECURSIVE str(_)
str(n) ==
    IF n < 10 THEN <<Digits[n + 1]>>
    ELSE str(n \div 10) \o <<Digits[(n % 10) + 1]>>

IsNumber(text) ==
    /\ text # <<>>
    /\ \A j \in 1..Len(text) : \E d \in 1..Len(Digits) : Digits[d] = text[j]

DigitValue(c) == (CHOOSE d \in 1..Len(Digits) : Digits[d] = c) - 1

RECURSIVE int(_)
int(text) ==
    IF Len(text) = 1 THEN DigitValue(text[1])
    ELSE 10 * int(SubSeq(text, 1, Len(text) - 1)) + DigitValue(text[Len(text)])

NoFile == [exists |-> FALSE, text |-> <<>>]
File(text) == [exists |-> TRUE, text |-> text]

key_paths ==
    <<hkcu_prefix \o Slash \o Software \o Slash \o Wine \o Slash \o Fonts,
      hkcu_prefix \o Slash \o Control_Panel \o Slash \o Desktop>>

\* an assign_dpi that writes the font DPI only
RECURSIVE assign_dpi_fonts(_, _, _)
assign_dpi_fonts(r, dpi, k) ==
    IF k > 1 THEN r
    ELSE assign_dpi_fonts(set_registry_key(r, key_paths[k], "LogPixels", dpi), dpi, k + 1)

\* assign_dpi(dpi), from the k-th key path on
RECURSIVE assign_dpi(_, _, _)
assign_dpi(r, dpi, k) ==
    IF k > Len(key_paths) THEN r
    ELSE assign_dpi(set_registry_key(r, key_paths[k], "LogPixels", dpi), dpi, k + 1)

\* an is_lutris_dpi_assigned that compares the font DPI only
is_lutris_dpi_assigned_fonts(r, f) ==
    /\ f.exists
    /\ IsNumber(f.text)
    /\ <<int(f.text)>> = get_registry_key(r, key_paths[1], "LogPixels")

is_lutris_dpi_assigned(r, f) ==
    /\ f.exists
    /\ IsNumber(f.text)
    /\ \A k \in 1..Len(key_paths) :
          <<int(f.text)>> = get_registry_key(r, key_paths[k], "LogPixels")

\* a set_dpi whose reset does not look at the registry
set_dpi_keep(y, dpi) ==
    IF dpi # NoDPI THEN
        [reg |-> assign_dpi(y.reg, dpi, 1), marker |-> File(str(dpi))]
    ELSE IF y.marker.exists THEN
        [reg |-> y.reg, marker |-> NoFile]
    ELSE y

\* a set_dpi whose clear branch does not ask for the marker file
set_dpi_nomarker(y, dpi) ==
    IF dpi # NoDPI THEN
        [reg |-> assign_dpi(y.reg, dpi, 1), marker |-> File(str(dpi))]
    ELSE
        [reg |-> IF y.marker.exists => is_lutris_dpi_assigned(y.reg, y.marker)
                 THEN assign_dpi(y.reg, DefaultDPI, 1) ELSE y.reg,
         marker |-> NoFile]

\* set_dpi(dpi) on y = [reg, marker]
set_dpi(y, dpi) ==
    IF dpi # NoDPI THEN
        [reg |-> assign_dpi(y.reg, dpi, 1), marker |-> File(str(dpi))]
    ELSE IF y.marker.exists THEN
        [reg |-> IF is_lutris_dpi_assigned(y.reg, y.marker)
                 THEN assign_dpi(y.reg, DefaultDPI, 1) ELSE y.reg,
         marker |-> NoFile]
    ELSE y

----------------------------------------------------------------------------
(* set_dpi, one write at a time.  y is the call in progress: the hives    *)
(* and the marker file it acts on, its argument and its position: ph is   *)
(* "branch" at line 335, "assign" in assign_dpi(dpi), "write" at line     *)
(* 338, "reset" in assign_dpi(96), "remove" at line 343, "done" at the    *)
(* return; k is the index of the next key path.                            *)

\* a set_dpi that writes the marker file before the registry values
set_dpi_step_markerfirst(y) ==
    CASE y.ph = "branch" ->
            IF y.dpi # NoDPI THEN [y EXCEPT !.ph = "write"]
            ELSE IF y.marker.exists THEN
                IF is_lutris_dpi_assigned(y.reg, y.marker)
                THEN [y EXCEPT !.ph = "reset", !.k = 1]
                ELSE [y EXCEPT !.ph = "remove"]
            ELSE [y EXCEPT !.ph = "done"]
      [] y.ph = "write" ->
            [y EXCEPT !.marker = File(str(y.dpi)), !.ph = "assign", !.k = 1]
      [] y.ph = "assign" ->
            [y EXCEPT !.reg = set_registry_key(y.reg, key_paths[y.k], "LogPixels", y.dpi),
                      !.k = @ + 1,
                      !.ph = IF y.k = Len(key_paths) THEN "done" ELSE "assign"]
      [] y.ph = "reset" ->
            [y EXCEPT !.reg = set_registry_key(y.reg, key_paths[y.k], "LogPixels", DefaultDPI),
                      !.k = @ + 1,
                      !.ph = IF y.k = Len(key_paths) THEN "remove" ELSE "reset"]
      [] y.ph = "remove" ->
            [y EXCEPT !.marker = NoFile, !.ph = "done"]

set_dpi_step(y) ==
    CASE y.ph = "branch" ->
            IF y.dpi # NoDPI THEN [y EXCEPT !.ph = "assign", !.k = 1]
            ELSE IF y.marker.exists THEN
                IF is_lutris_dpi_assigned(y.reg, y.marker)
                THEN [y EXCEPT !.ph = "reset", !.k = 1]
                ELSE [y EXCEPT !.ph = "remove"]
            ELSE [y EXCEPT !.ph = "done"]
      [] y.ph = "assign" ->
            [y EXCEPT !.reg = set_registry_key(y.reg, key_paths[y.k], "LogPixels", y.dpi),
                      !.k = @ + 1,
                      !.ph = IF y.k = Len(key_paths) THEN "write" ELSE "assign"]
      [] y.ph = "write" ->
            [y EXCEPT !.marker = File(str(y.dpi)), !.ph = "done"]
      [] y.ph = "reset" ->
            [y EXCEPT !.reg = set_registry_key(y.reg, key_paths[y.k], "LogPixels", DefaultDPI),
                      !.k = @ + 1,
                      !.ph = IF y.k = Len(key_paths) THEN "remove" ELSE "reset"]
      [] y.ph = "remove" ->
            [y EXCEPT !.marker = NoFile, !.ph = "done"]

----------------------------------------------------------------------------
(* Initial states *)

\* user.reg as wine writes it: every Shell Folders value is a Windows path
ShellAllFound ==
    [k \in 1..Len(DESKTOP_KEYS) |-> <<"C:", "users", "user", DEFAULT_DESKTOP_FOLDERS[k]>>]
\* a user.reg without the Shell Folders key
ShellNoneFound == [k \in 1..Len(DESKTOP_KEYS) |-> <<>>]

\* the host's special folders: the usual ones under the home directory, the
\* same with one of them not discoverable, or folders under other names
XdgStandard  == [k \in 1..Len(DESKTOP_XDG) |-> join(HomeDir, DEFAULT_DESKTOP_FOLDERS[k])]
XdgLocalized == [k \in 1..Len(DESKTOP_XDG) |-> <<"home", "user", "xdg", DESKTOP_XDG[k]>>]
XdgMusicMissing == [XdgStandard EXCEPT ![3] = NoPath]
XdgConfigs == {XdgStandard, XdgLocalized, XdgMusicMissing}

\* what a guest folder and its backup can be before the first call: a real
\* directory, empty or holding the file "a", or the link into the home
\* directory that wine makes; no backup, an empty one or one holding "b"
InitFolder(n) == {Dir({}), Dir({"a"}), Link(join(HomeDir, n))}
InitSafe      == {None, Dir({}), Dir({"b"})}

NoCall == [op |-> "none", arg |-> NoPath]

\* what a call leaves behind
Outcome(x) ==
    [folder |-> x.folder, safe |-> x.safe, made |-> x.made, marker |-> x.marker,
     raised |-> x.raised]
Idle   == [op |-> "none", arg |-> NoPath, items |-> <<>>, i |-> 0, ph |-> "idle"]

\* no call in progress: nothing is expected
NoOutcome ==
    [folder |-> [n \in Names |-> None], safe |-> [n \in Names |-> None],
     made |-> {}, marker |-> NoPath, raised |-> FALSE]

\* a prefix with or without the user's profile directory; the Shell Folders
\* key resolves all five names, or none of them on a host with the usual
\* special folders
InitEnv ==
    /\ userDirExists \in BOOLEAN
    /\ shell \in {ShellAllFound, ShellNoneFound}
    /\ xdg \in XdgConfigs
    /\ (shell = ShellNoneFound) => (xdg = XdgStandard)

\* what a folder and its backup can start as: an empty backup directory is
\* one that a non-empty folder meets
InitEntries(n) ==
    {e \in InitFolder(n) \X InitSafe : (e[2] = Dir({})) => (e[1] = Dir({"a"}))}
Pristine == <<Dir({}), None>>

\* no marker file; without the profile directory there is nothing in it; with
\* it, at most MaxDirty folders differ from an empty directory without backup
InitFS ==
    /\ IF userDirExists
       THEN \E D \in {S \in SUBSET Names : Cardinality(S) <= MaxDirty} :
              \E e \in [D -> UNION {InitEntries(n) : n \in D}] :
                 /\ \A n \in D : e[n] \in InitEntries(n) \ {Pristine}
                 /\ folder = [n \in Names |-> IF n \in D THEN e[n][1] ELSE Pristine[1]]
                 /\ safe = [n \in Names |-> IF n \in D THEN e[n][2] ELSE Pristine[2]]
       ELSE /\ folder = [n \in Names |-> None]
            /\ safe = [n \in Names |-> None]
    /\ made = {}
    /\ marker = NoPath

InitHist ==
    /\ pc = Idle
    /\ muts = 0
    /\ raised = FALSE
    /\ call = NoCall
    /\ clean = TRUE
    /\ interrupted = FALSE
    /\ expect = NoOutcome

\* hive files that hold no LogPixels value, and no DPI marker file
InitDPI ==
    /\ reg = NoValues
    /\ dpiMarker = NoFile
    /\ dpiCall = [op |-> "none", dpi |-> NoDPI, prev |-> [op |-> "none", dpi |-> NoDPI]]

NoRegCall ==
    [op |-> "none", key |-> <<>>, subkey |-> "", value |-> <<>>, raised |-> FALSE,
     opened |-> {}, result |-> <<>>]

NoUsersCall == [op |-> "none", raised |-> FALSE, prev |-> "none"]

\* no set_dpi call in progress
IdleDPI ==
    [dpi |-> NoDPI, ph |-> "idle", k |-> 0, from |-> [reg |-> NoValues, marker |-> NoFile]]

\* the profile of the current user is a directory when it exists; no
\* steamuser profile
InitMore ==
    /\ regCall = NoRegCall
    /\ users = [wine |-> IF userDirExists THEN Dir({}) ELSE None, proton |-> None]
    /\ usersCall = NoUsersCall
    /\ dpiPc = IdleDPI

Init == InitEnv /\ InitFS /\ InitHist /\ InitDPI /\ InitMore

----------------------------------------------------------------------------
(* The operations as calls that run to their end *)

TargetDirs == Sandboxes \cup {UserDir, NoPath, <<"~">>}

\* a call c that ran to its end (or to its raise) and left r
Call(c, res) ==
    \E r \in {res} :
        /\ pc = Idle
        /\ folder' = r.folder
        /\ safe' = r.safe
        /\ made' = r.made
        /\ marker' = r.marker
        /\ muts' = r.muts
        /\ raised' = r.raised
        /\ call' = c
        /\ clean' = (clean /\ ~r.raised)
        /\ UNCHANGED <<pc, interrupted, expect>>
        /\ UNCHANGED envVars
        /\ UNCHANGED <<dpiVars, moreVars>>

EnableSandbox(d) ==
    Call([op |-> "sandbox", arg |-> d], enable_desktop_integration_sandbox(d))
Disintegrate ==
    Call([op |-> "disintegrate", arg |-> NoPath], enable_desktop_disintegration)
RestoreHomeLinks ==
    Call([op |-> "restore", arg |-> NoPath], restore_desktop_integration)

Next ==
    \/ \E d \in TargetDirs : EnableSandbox(d)
    \/ Disintegrate
    \/ RestoreHomeLinks

Spec == Init /\ [][Next]_vars

----------------------------------------------------------------------------
(* The operations one system call at a time.  The process can be killed   *)
(* between two system calls of a call; the same call is then made again,  *)
(* from its start, on the filesystem the killed one left.                  *)

\* the call in progress as a record of the step operators
Current ==
    [folder |-> folder, safe |-> safe, made |-> made, marker |-> marker,
     muts |-> muts, raised |-> raised,
     op |-> pc.op, arg |-> pc.arg, items |-> pc.items, i |-> pc.i, ph |-> pc.ph]

Position(x) == [op |-> x.op, arg |-> x.arg, items |-> x.items, i |-> x.i, ph |-> x.ph]

Running == pc.ph \notin {"idle", "done"} /\ ~raised

Begin(op, arg) ==
    \E x \in {Start(op, arg, folder, safe, made, marker)} :
        /\ pc = Idle
        /\ pc' = Position(x)
        /\ call' = [op |-> op, arg |-> arg]
        /\ muts' = 0
        /\ raised' = FALSE
        /\ interrupted' = FALSE
        /\ expect' = Outcome(Run(x))
        /\ UNCHANGED <<clean, fsVars, envVars, dpiVars, moreVars>>

StepCall ==
    /\ Running
    /\ \E x \in {Step(Current)} :
        /\ folder' = x.folder
        /\ safe' = x.safe
        /\ made' = x.made
        /\ marker' = x.marker
        /\ muts' = x.muts
        /\ raised' = x.raised
        /\ pc' = Position(x)
        /\ UNCHANGED <<call, clean, interrupted, expect, envVars, dpiVars, moreVars>>

\* killed after at least one step and before the last, then called again
InterruptAndRecall ==
    /\ Running /\ pc.ph # "check" /\ ~interrupted
    /\ pc' = Position(Start(call.op, call.arg, folder, safe, made, marker))
    /\ muts' = 0
    /\ interrupted' = TRUE
    /\ UNCHANGED <<raised, call, clean, expect, fsVars, envVars, dpiVars, moreVars>>

Return ==
    /\ pc.ph = "done" \/ (pc.ph # "idle" /\ raised)
    /\ pc' = Idle
    /\ clean' = (clean /\ ~raised)
    /\ interrupted' = FALSE
    /\ expect' = NoOutcome
    /\ UNCHANGED <<muts, raised, call, fsVars, envVars, dpiVars, moreVars>>

\* a prefix with its user directory and its Shell Folders key, one folder of
\* which is not an empty directory
InitInt ==
    /\ Init
    /\ userDirExists
    /\ shell = ShellAllFound
    /\ xdg \in {XdgStandard, XdgMusicMissing}
    /\ \E k \in Names : \A n \in Names \ {k} : folder[n] = Dir({}) /\ safe[n] = None

NextInt ==
    \/ \E d \in TargetDirs : Begin("sandbox", d)
    \/ Begin("disintegrate", NoPath)
    \/ Begin("restore", NoPath)
    \/ StepCall
    \/ InterruptAndRecall
    \/ Return

SpecInt == InitInt /\ [][NextInt]_vars

----------------------------------------------------------------------------
(* create_user_symlinks, and what wine, proton and the user do to the two *)
(* profiles between its calls.                                             *)

UsersCall(op, r) ==
    /\ users' = r.users
    /\ userDirExists' = exists(r.users, "wine")
    /\ usersCall' = [op |-> op, raised |-> r.raised, prev |-> usersCall.op]
    /\ UNCHANGED <<shell, xdg, fsVars, histVars, dpiVars, regCall, dpiPc>>

CreateUserSymlinks == UsersCall("create", create_user_symlinks(users))

\* wine or proton makes its profile directory where nothing is
MakeProfile(u, fs) ==
    /\ users[u] = None
    /\ UsersCall("make", [users |-> [users EXCEPT ![u] = Dir(fs)], raised |-> FALSE])

\* the user removes a profile
RemoveProfile(u) ==
    /\ users[u] # None
    /\ UsersCall("remove", [users |-> [users EXCEPT ![u] = None], raised |-> FALSE])

\* the prefix is moved to another path: the links made before, which hold
\* the absolute path of their target, no longer lead anywhere
MovePrefix ==
    /\ \E u \in Profiles : islink(users[u]) /\ users[u].target # StalePath
    /\ UsersCall("move",
           [users |-> [u \in Profiles |->
                          IF islink(users[u]) THEN Link(StalePath) ELSE users[u]],
            raised |-> FALSE])

\* the desktop folders are not looked at here
InitUsers ==
    /\ users \in [Profiles -> {None, Dir({}), Dir({"a"})}]
    /\ userDirExists = exists(users, "wine")
    /\ shell = ShellAllFound /\ xdg = XdgStandard
    /\ folder = [n \in Names |-> IF userDirExists THEN Dir({}) ELSE None]
    /\ safe = [n \in Names |-> None]
    /\ made = {} /\ marker = NoPath
    /\ InitHist /\ InitDPI
    /\ regCall = NoRegCall /\ usersCall = NoUsersCall /\ dpiPc = IdleDPI

NextUsers ==
    \/ CreateUserSymlinks
    \/ \E u \in Profiles, fs \in {{}, {"a"}} : MakeProfile(u, fs)
    \/ \E u \in Profiles : RemoveProfile(u)
    \/ MovePrefix

SpecUsers == InitUsers /\ [][NextUsers]_vars

----------------------------------------------------------------------------
(* The same calls on prefixes whose Shell Folders key lacks some of the   *)
(* five values.                                                            *)

\* a user.reg whose Shell Folders key has no "My Music" value, and one that
\* has the Desktop value only
ShellMusicMissing == [ShellAllFound EXCEPT ![3] = <<>>]
ShellDesktopOnly  == [k \in 1..Len(DESKTOP_KEYS) |-> IF k = 1 THEN ShellAllFound[k] ELSE <<>>]
ShellConfigs == {ShellAllFound, ShellNoneFound, ShellMusicMissing, ShellDesktopOnly}

\* the Videos folder starts as any folder can, the others as empty directories
InitShell ==
    /\ userDirExists = TRUE
    /\ shell \in ShellConfigs
    /\ xdg \in {XdgStandard, XdgLocalized}
    /\ \E e \in InitEntries("Videos") :
          /\ folder = [n \in Names |-> IF n = "Videos" THEN e[1] ELSE Pristine[1]]
          /\ safe = [n \in Names |-> IF n = "Videos" THEN e[2] ELSE Pristine[2]]
    /\ made = {}
    /\ marker = NoPath
    /\ InitHist /\ InitDPI /\ InitMore

SpecShell == InitShell /\ [][Next]_vars

----------------------------------------------------------------------------
(* The DPI operations, and the changes that the user or wine make to the  *)
(* two registry values and to the marker file between them.               *)

DPIValues == {DefaultDPI, 120, 144}

\* the record of an operation made after the last one
After(op, dpi) ==
    [op |-> op, dpi |-> dpi, prev |-> [op |-> dpiCall.op, dpi |-> dpiCall.dpi]]

DPICall(op, dpi) ==
    \E y \in {set_dpi([reg |-> reg, marker |-> dpiMarker], dpi)} :
        /\ reg' = y.reg
        /\ dpiMarker' = y.marker
        /\ dpiCall' = After(op, dpi)
        /\ UNCHANGED <<envVars, fsVars, histVars, moreVars>>

SetDPI(v) == DPICall("set", v)
ClearDPI  == DPICall("clear", NoDPI)

ExternalRegistryChange(k, v) ==
    /\ reg' = set_registry_key(reg, key_paths[k], "LogPixels", v)
    /\ reg' # reg
    /\ dpiCall' = After("external", NoDPI)
    /\ UNCHANGED <<dpiMarker, envVars, fsVars, histVars, moreVars>>

ExternalMarkerChange(text) ==
    /\ dpiMarker.exists
    /\ dpiMarker' = File(text)
    /\ dpiMarker' # dpiMarker
    /\ dpiCall' = After("external", NoDPI)
    /\ UNCHANGED <<reg, envVars, fsVars, histVars, moreVars>>

\* what another writer leaves in the marker file: nothing, no number, or a
\* number
MarkerTexts == {<<>>, <<"x">>, str(120)}

\* one prefix, its folders untouched
InitDPISpec ==
    /\ Init
    /\ userDirExists /\ shell = ShellAllFound /\ xdg = XdgStandard
    /\ \A n \in Names : folder[n] = Dir({}) /\ safe[n] = None

NextDPI ==
    \/ \E v \in DPIValues : SetDPI(v)
    \/ ClearDPI
    \/ \E k \in 1..Len(key_paths), v \in DPIValues : ExternalRegistryChange(k, v)
    \/ \E text \in MarkerTexts : ExternalMarkerChange(text)

SpecDPI == InitDPISpec /\ [][NextDPI]_vars

----------------------------------------------------------------------------
(* set_dpi calls, one write at a time, with nothing else writing to the   *)
(* registry values or to the marker file.  set_dpi(0) is the clear call.  *)

BeginSetDPI(dpi) ==
    /\ dpiPc.ph = "idle"
    /\ dpiPc' = [dpi |-> dpi, ph |-> "branch", k |-> 0,
                 from |-> [reg |-> reg, marker |-> dpiMarker]]
    /\ UNCHANGED <<dpiVars, envVars, fsVars, histVars, regCall, users, usersCall>>

StepSetDPI ==
    /\ dpiPc.ph \notin {"idle", "done"}
    /\ \E y \in {set_dpi_step([reg |-> reg, marker |-> dpiMarker, dpi |-> dpiPc.dpi,
                                 ph |-> dpiPc.ph, k |-> dpiPc.k])} :
          /\ reg' = y.reg
          /\ dpiMarker' = y.marker
          /\ dpiPc' = [dpiPc EXCEPT !.ph = y.ph, !.k = y.k]
    /\ UNCHANGED <<dpiCall, envVars, fsVars, histVars, regCall, users, usersCall>>

ReturnSetDPI ==
    /\ dpiPc.ph = "done"
    /\ dpiPc' = IdleDPI
    /\ dpiCall' = After(IF dpiPc.dpi # NoDPI THEN "set" ELSE "clear", dpiPc.dpi)
    /\ UNCHANGED <<reg, dpiMarker, envVars, fsVars, histVars, regCall, users, usersCall>>

NextDPISteps ==
    \/ \E dpi \in DPIValues \cup {NoDPI} : BeginSetDPI(dpi)
    \/ StepSetDPI
    \/ ReturnSetDPI

SpecDPISteps == InitDPISpec /\ [][NextDPISteps]_vars

----------------------------------------------------------------------------
(* The registry operations and override_dll, on key addresses with and    *)
(* without a hive identifier in front.                                     *)

DllOverridesKey ==
    hkcu_prefix \o Slash \o Software \o Slash \o Wine \o Slash \o DllOverrides

\* "HKEY_USERS/Software", "Software/Wine", "", "HKEY_CURRENT_USER",
\* "HKEY_CURRENT_USERS/Wine", "hkey_current_user/Wine" and three addresses
\* of the form <HIVE>/<path>
Addresses ==
    { DllOverridesKey,
      hkcu_prefix \o Slash \o Wine,
      hklm_prefix \o Slash \o Software,
      hkcu_prefix,
      hkcu_prefix \o <<"S">> \o Slash \o Wine,
      <<"h", "k", "e", "y", "_", "c", "u", "r", "r", "e", "n", "t", "_", "u", "s", "e", "r">> \o Slash \o Wine,
      <<"H", "K", "E", "Y", "_", "U", "S", "E", "R", "S">> \o Slash \o Software,
      Software \o Slash \o Wine,
      <<>> }

Dlls == {"d3d11", "winemenubuilder"}
\* modes given to override_dll: "Disabled" and "disable" besides those above
Modes ==
    {ModeNative, Builtin_Native, Empty, Dis, Disabled, Bogus,
     <<"D", "i", "s", "a", "b", "l", "e", "d">>, <<"d", "i", "s", "a", "b", "l", "e">>}

RegCall(op, key, subkey, value, r, result) ==
    /\ reg' = r
    /\ regCall' = [op |-> op, key |-> key, subkey |-> subkey, value |-> value,
                   raised |-> (Opened(key) = {}), opened |-> Opened(key),
                   result |-> result]
    /\ UNCHANGED <<dpiMarker, dpiCall, envVars, fsVars, histVars, users, usersCall, dpiPc>>

GetRegistryKey(key, subkey) ==
    RegCall("get", key, subkey, <<>>, reg, get_registry_key(reg, key, subkey))

SetRegistryKey(key, subkey, value) ==
    RegCall("set", key, subkey, value, set_registry_key(reg, key, subkey, value), <<>>)

ClearRegistryKey(key) ==
    RegCall("clear", key, "", <<>>, clear_registry_key(reg, key), <<>>)

OverrideDll(dll, mode) ==
    RegCall("override", DllOverridesKey, dll, mode, override_dll(reg, dll, mode), <<>>)

\* one prefix, its folders untouched, nothing in the hives
InitReg == InitDPISpec

NextReg ==
    \/ \E key \in Addresses, subkey \in Dlls : GetRegistryKey(key, subkey)
    \/ \E key \in Addresses : SetRegistryKey(key, "d3d11", ModeNative)
    \/ \E key \in Addresses : ClearRegistryKey(key)
    \/ \E dll \in Dlls, mode \in Modes : OverrideDll(dll, mode)

SpecReg == InitReg /\ [][NextReg]_vars

----------------------------------------------------------------------------
(* Notions the properties use *)

\* the directory a call of enable_desktop_integration_sandbox(d) links into
Target(d) == Resolve("sandbox", d).arg

\* the user's files kept for folder n: in the real directory at the folder
\* path and in the real directory at the backup path
Kept(f, s, n) == f[n].files \cup s[n].files

LinkedInto(f, d) == \A n \in Names : f[n] = Link(join(d, n))

IsSandboxCall(c) == c.op = "sandbox" /\ Target(c.arg) # UserDir

----------------------------------------------------------------------------
(* C1: no call deletes user data: every file that is in a guest folder or *)
(* in its .winecfg backup before a call is in that folder or in that      *)
(* backup after it, also when the call raises; a non-empty backup is      *)
(* never overwritten.                                                      *)
C1_NoUserDataDeleted ==
    [][\A n \in Names :
          /\ Kept(folder, safe, n) \subseteq Kept(folder', safe', n)
          /\ (safe[n].files # {} /\ safe'[n] # safe[n]) =>
                 (folder'[n] = safe[n] /\ safe'[n] = None)]_vars

\* a non-empty folder was renamed aside and replaced by a link
C1_Witness ==
    /\ call.op # "none"
    /\ \E n \in Names : safe[n] = Dir({"a"}) /\ islink(folder[n])

----------------------------------------------------------------------------
(* C2: EnableSandbox(d) right after a completed EnableSandbox(d), d not   *)
(* the guest user-profile directory, on a prefix that has that directory: *)
(* the second call makes no filesystem mutation and the marker is d.      *)
C2_EnableSandboxIdempotent ==
    [][(/\ IsSandboxCall(call) /\ ~raised /\ userDirExists
        /\ call' = call)
         => (muts' = 0 /\ marker' = Target(call.arg) /\ ~raised')]_vars

\* a call EnableSandbox(d) that found the marker d and made no mutation
C2_Witness ==
    /\ IsSandboxCall(call) /\ userDirExists /\ ~raised
    /\ muts = 0
    /\ marker = Target(call.arg)
    /\ LinkedInto(folder, marker)

----------------------------------------------------------------------------
(* C3: when EnableSandbox(d) completes on a prefix whose marker is not d  *)
(* (no marker, or the marker of an earlier sandbox d1), each of the five  *)
(* guest folders is a symlink to d/<name>, d/<name> exists and the marker *)
(* is d.                                                                   *)
C3_EnableSandboxPostcondition ==
    [][(/\ IsSandboxCall(call') /\ ~raised' /\ userDirExists
        /\ marker # Target(call'.arg))
         => (/\ Cardinality(Names) = Len(DESKTOP_KEYS)
             /\ LinkedInto(folder', Target(call'.arg))
             /\ \A n \in Names : join(Target(call'.arg), n) \in made'
             /\ marker' = Target(call'.arg))]_vars

\* sandboxed into sandbox2 after having been sandboxed into sandbox1
C3_Witness ==
    /\ call = [op |-> "sandbox", arg |-> <<"tmp", "sandbox2">>]
    /\ ~raised /\ muts > 0
    /\ marker = <<"tmp", "sandbox2">>
    /\ LinkedInto(folder, <<"tmp", "sandbox2">>)
    /\ <<"tmp", "sandbox1", "Desktop">> \in made

----------------------------------------------------------------------------
(* C4: Disintegrate on a native prefix.                                    *)

\* every guest folder is a real directory and the marker is absent or
\* names the guest user-profile directory
Native == (\A n \in Names : isdir(folder[n])) /\ marker \in {NoPath, UserDir}

\* C4 as claimed: Disintegrate on a native prefix changes no folder, no
\* backup and not the marker file
C4_AsClaimed ==
    [][(Native /\ call'.op = "disintegrate")
         => (folder' = folder /\ safe' = safe /\ marker' = marker /\ muts' = 0)]_vars

\* C4 as amended: Disintegrate on a native prefix changes no folder and no
\* backup; with the marker naming the guest user-profile directory it makes
\* no mutation at all, with the marker absent its one mutation is writing
\* the guest user-profile directory to the marker file
C4_DisintegrateOnNative ==
    [][(Native /\ call'.op = "disintegrate" /\ userDirExists)
         => (/\ folder' = folder /\ safe' = safe /\ made' = made
             /\ ~raised'
             /\ marker' = UserDir
             /\ muts' = IF marker = UserDir THEN 0 ELSE 1)]_vars

\* a Disintegrate that found the native marker and did nothing
C4_Witness ==
    /\ call.op = "disintegrate" /\ userDirExists
    /\ Native /\ marker = UserDir /\ muts = 0

----------------------------------------------------------------------------
(* C5: Disintegrate after a completed EnableSandbox(d): every guest folder *)
(* is a real directory; a folder that was a non-empty directory before    *)
(* EnableSandbox has its contents back and no backup is left at its       *)
(* .winecfg path; a folder with no backup is a fresh empty directory.     *)
C5_RoundTrip ==
    [][(/\ IsSandboxCall(call') /\ ~raised' /\ userDirExists
        /\ marker # Target(call'.arg))
         => \A back \in {Run(Start("disintegrate", NoPath, folder', safe', made', marker'))} :
                /\ ~back.raised
                /\ back.marker = UserDir
                /\ \A n \in Names :
                     /\ isdir(back.folder[n])
                     /\ (isdir(folder[n]) /\ folder[n].files # {}) =>
                            (back.folder[n] = folder[n] /\ back.safe[n] = None)
                     /\ (safe'[n] = None) =>
                            (back.folder[n] = Dir({}) /\ back.safe[n] = None)]_vars

\* a Disintegrate that took a folder's contents back out of a sandbox
C5_Witness ==
    /\ call.op = "disintegrate" /\ ~raised /\ muts > 1
    /\ marker = UserDir
    /\ \E n \in Names :
         /\ folder[n] = Dir({"a"}) /\ safe[n] = None
         /\ \E d \in Sandboxes : join(d, n) \in made
    /\ \E n \in Names : folder[n] = Dir({})

----------------------------------------------------------------------------
(* C6: a call that was killed between two of its system calls and made    *)
(* again, and that then runs to its end, leaves the folders, the backups  *)
(* and the marker that the call leaves when it is not interrupted.        *)
C6_Resumable ==
    (pc.ph = "done" /\ interrupted /\ ~expect.raised)
        => (/\ folder = expect.folder
            /\ safe = expect.safe
            /\ marker = expect.marker)

----------------------------------------------------------------------------
(* C7: what the marker says about the folders, after calls that all ran   *)
(* to their end.                                                           *)

\* the folders as RestoreHomeLinks leaves them: each one a link to its host
\* special folder, or nothing where the host has none
HomeRestored ==
    \A k \in 1..Len(DEFAULT_DESKTOP_FOLDERS) :
        folder[DEFAULT_DESKTOP_FOLDERS[k]] =
            IF xdg[k] = NoPath THEN None ELSE Link(xdg[k])

NoLinks == \A n \in Names : ~islink(folder[n])

\* C7 as claimed: the marker alone tells the mode: the guest user-profile
\* directory means no folder is a link, the host home directory means the
\* folders link to the host special folders, any other directory d means
\* every folder is a link into d
C7_AsClaimed ==
    clean =>
        /\ (marker = UserDir) => NoLinks
        /\ (marker = HomeDir) => HomeRestored
        /\ (marker \notin {NoPath, UserDir, HomeDir}) => LinkedInto(folder, marker)

\* C7 as amended: the host home directory as marker is shared by two modes,
\* the links to the host special folders that RestoreHomeLinks makes and
\* the sandbox that EnableSandbox(home directory) makes inside the home
\* directory
C7_MarkerTellsMode ==
    clean =>
        /\ (marker = UserDir) => NoLinks
        /\ (marker = HomeDir) => (HomeRestored \/ LinkedInto(folder, HomeDir))
        /\ (marker \notin {NoPath, UserDir, HomeDir}) => LinkedInto(folder, marker)

\* sandboxed into the home directory, which the host special folders are not in
C7_Witness ==
    /\ clean /\ call.op = "sandbox"
    /\ marker = HomeDir
    /\ LinkedInto(folder, HomeDir)
    /\ ~HomeRestored

----------------------------------------------------------------------------
(* C8: RestoreHomeLinks with marker other than the home directory: a      *)
(* folder whose host path is not discoverable gets no link and raises     *)
(* nothing, every other folder is a link to its host path and the marker  *)
(* is the home directory; with the marker the home directory the call     *)
(* does nothing.                                                           *)
C8_RestorePerItem ==
    [][(call'.op = "restore" /\ userDirExists)
         => IF marker = HomeDir
            THEN muts' = 0 /\ ~raised' /\ fsVars' = fsVars
            ELSE /\ raised' =>
                     \E n \in Names : folder[n].files # {} /\ safe[n].files # {}
                 /\ ~raised' =>
                     /\ marker' = HomeDir
                     /\ \A k \in 1..Len(DESKTOP_XDG) :
                          LET n == DEFAULT_DESKTOP_FOLDERS[k]
                          IN  IF xdg[k] = NoPath
                              THEN ~islink(folder'[n])
                              ELSE folder'[n] = Link(xdg[k])]_vars

\* restored with the host's music folder not discoverable
C8_Witness ==
    /\ call.op = "restore" /\ ~raised /\ muts > 0
    /\ xdg = XdgMusicMissing
    /\ marker = HomeDir
    /\ folder["Music"] = None
    /\ \A n \in Names \ {"Music"} : folder[n] = Link(join(HomeDir, n))

----------------------------------------------------------------------------
(* C9: EnableSandbox(t) is Disintegrate() when t is the guest             *)
(* user-profile directory (or empty, which stands for it); for every      *)
(* other t, the home directory included, it is the sandbox transition     *)
(* into t: it never writes the native marker and never turns a link into  *)
(* a directory.                                                            *)
C9_DegeneratesOnlyOnUserDir ==
    [][(call'.op = "sandbox")
         => IF call'.arg \in {UserDir, NoPath}
            THEN LET dis == enable_desktop_disintegration
                 IN  /\ folder' = dis.folder /\ safe' = dis.safe
                     /\ made' = dis.made /\ marker' = dis.marker
                     /\ raised' = dis.raised /\ muts' = dis.muts
            ELSE LET t == expanduser(call'.arg)
                 IN  /\ marker' \in {marker, t}
                     /\ \A n \in Names : islink(folder[n]) => ~isdir(folder'[n])
                     /\ (userDirExists /\ marker # t /\ ~raised') =>
                            (marker' = t /\ LinkedInto(folder', t))]_vars

\* EnableSandbox(user_dir) that turned links back into directories
C9_Witness ==
    /\ call = [op |-> "sandbox", arg |-> UserDir]
    /\ muts > 1 /\ marker = UserDir
    /\ \A n \in Names : isdir(folder[n])
    /\ \E n \in Names, d \in Sandboxes \cup {HomeDir} : join(d, n) \in made

----------------------------------------------------------------------------
(* C10: SetDPI(v) writes v to LogPixels of Software/Wine/Fonts and of     *)
(* Control Panel/Desktop and str(v) to the marker file; ClearDPI() right  *)
(* after it, with no other change in between, sets both values to 96 and  *)
(* removes the marker file.                                                *)
BothLogPixels(r, v) ==
    /\ query(r, "user.reg", Software \o Slash \o Wine \o Slash \o Fonts, "LogPixels") = <<v>>
    /\ query(r, "user.reg", Control_Panel \o Slash \o Desktop, "LogPixels") = <<v>>

C10_SetThenClearDPI ==
    [][/\ (dpiCall'.op = "set") =>
            /\ BothLogPixels(reg', dpiCall'.dpi)
            /\ dpiMarker'.exists /\ IsNumber(dpiMarker'.text)
            /\ int(dpiMarker'.text) = dpiCall'.dpi
       /\ (dpiCall.op = "set" /\ dpiCall'.op = "clear") =>
            /\ BothLogPixels(reg', DefaultDPI)
            /\ ~dpiMarker'.exists]_vars

\* a ClearDPI() that reset a DPI of 120 to 96
C10_Witness ==
    /\ dpiCall.op = "clear"
    /\ dpiCall.prev = [op |-> "set", dpi |-> 120]
    /\ BothLogPixels(reg, DefaultDPI)
    /\ ~dpiMarker.exists

----------------------------------------------------------------------------
(* C11: ClearDPI() with a marker file: the two LogPixels values are set   *)
(* to 96 if and only if the marker reads as a number and both values are  *)
(* that number; otherwise (a value changed by another writer, a marker     *)
(* that is empty or no number) the registry is left exactly as it is; in  *)
(* every case the marker file is removed.                                  *)
MarkerMatches(r, f) == IsNumber(f.text) /\ BothLogPixels(r, int(f.text))

C11_ClearKeepsForeignDPI ==
    [][(dpiCall'.op = "clear" /\ dpiMarker.exists) =>
          /\ ~dpiMarker'.exists
          /\ IF MarkerMatches(reg, dpiMarker)
             THEN /\ BothLogPixels(reg', DefaultDPI)
                  /\ reg' = assign_dpi(reg, DefaultDPI, 1)
             ELSE reg' = reg]_vars

\* a ClearDPI() that met a marker with one of the two values changed, left
\* the registry alone and removed the marker
C11_Witness ==
    /\ dpiCall.op = "clear"
    /\ dpiCall.prev.op = "external"
    /\ ~dpiMarker.exists
    /\ \E v \in DPIValues, w \in DPIValues \ {DefaultDPI} :
          /\ v # w
          /\ query(reg, "user.reg", Software \o Slash \o Wine \o Slash \o Fonts, "LogPixels") = <<w>>
          /\ query(reg, "user.reg", Control_Panel \o Slash \o Desktop, "LogPixels") = <<v>>

----------------------------------------------------------------------------
(* C12: ClearDPI() without a marker file changes neither LogPixels value  *)
(* and creates no marker file; a ClearDPI() right after a ClearDPI()       *)
(* changes nothing.                                                        *)
C12_ClearWithoutMarker ==
    [][/\ (dpiCall'.op = "clear" /\ ~dpiMarker.exists) =>
            (reg' = reg /\ dpiMarker' = dpiMarker)
       /\ (dpiCall'.op = "clear" /\ dpiCall.op = "clear") =>
            (reg' = reg /\ dpiMarker' = dpiMarker)]_vars

\* a second ClearDPI() over values that are not the default
C12_Witness ==
    /\ dpiCall.op = "clear" /\ dpiCall.prev.op = "clear"
    /\ ~dpiMarker.exists
    /\ reg # NoValues
    /\ ~BothLogPixels(reg, DefaultDPI)

----------------------------------------------------------------------------
----------------------------------------------------------------------------
(* C14: override_dll(dll, "disabled") leaves the registry as               *)
(* override_dll(dll, "") does; a mode that does not start with "dis" and   *)
(* is none of builtin, native, "builtin,native", "native,builtin", "" is   *)
(* rejected without raising and the registry is unchanged; an accepted     *)
(* mode is the value of dll under HKEY_CURRENT_USER/Software/Wine/         *)
(* DllOverrides afterwards, and no other value changes.                    *)
DllOverride(r, dll) ==
    query(r, "user.reg", Software \o Slash \o Wine \o Slash \o DllOverrides, dll)

OtherValuesKept(r1, r2, dll) ==
    \A path \in {"user.reg", "system.reg"}, key \in Addresses, subkey \in Dlls :
        (<<path, get_key_path(key), subkey>> #
            <<"user.reg", Software \o Slash \o Wine \o Slash \o DllOverrides, dll>>)
        => query(r2, path, get_key_path(key), subkey) = query(r1, path, get_key_path(key), subkey)

C14_OverrideDllModes ==
    [][(regCall'.op = "override") =>
          LET mode == regCall'.value
              dll  == regCall'.subkey
          IN  /\ ~regCall'.raised
              /\ (mode = Disabled) =>
                    /\ reg' = override_dll(reg, dll, Empty)
                    /\ DllOverride(reg', dll) = <<Empty>>
              /\ (mode \notin ValidModes /\ ~startswith(mode, Dis)) => reg' = reg
              /\ (mode \in ValidModes) =>
                    /\ DllOverride(reg', dll) = <<mode>>
                    /\ OtherValuesKept(reg, reg', dll)]_vars

\* override_dll("d3d11", "disabled") wrote "" beside another override
C14_Witness ==
    /\ regCall.op = "override" /\ regCall.value = Disabled /\ regCall.subkey = "d3d11"
    /\ DllOverride(reg, "d3d11") = <<Empty>>
    /\ DllOverride(reg, "winemenubuilder") = <<ModeNative>>

----------------------------------------------------------------------------
(* C15: get_desktop_folders returns the five names read from the Shell    *)
(* Folders key when all five lookups succeed and the five built-in         *)
(* defaults when any lookup fails: never fewer than five names.            *)
AllFound(sh) == \A k \in 1..Len(DESKTOP_KEYS) : sh[k] # <<>>

C15_AllOrNothing ==
    LET desktop_folders == get_desktop_folders(shell)
    IN  /\ Len(desktop_folders) = Len(DESKTOP_KEYS)
        /\ AllFound(shell) =>
               \A k \in 1..Len(DESKTOP_KEYS) :
                   desktop_folders[k] = shell[k][Len(shell[k])]
        /\ ~AllFound(shell) => desktop_folders = DEFAULT_DESKTOP_FOLDERS

----------------------------------------------------------------------------
(* C17: Disintegrate() leaves every folder whose guest path is not a      *)
(* symlink when it runs, and that folder's .winecfg backup, exactly as     *)
(* they were, whatever the marker says.                                    *)
IsDisintegrateCall(c) ==
    c.op = "disintegrate" \/ (c.op = "sandbox" /\ Target(c.arg) = UserDir)

C17_DisintegrateOnlyUndoesLinks ==
    [][IsDisintegrateCall(call') =>
          \A n \in Names :
              ~islink(folder[n]) => (folder'[n] = folder[n] /\ safe'[n] = safe[n])]_vars

\* a Disintegrate() that turned links into directories and left alone a
\* folder that was missing beside its backup
C17_Witness ==
    /\ call.op = "disintegrate" /\ muts > 1 /\ marker = UserDir
    /\ folder["Music"] = None /\ safe["Music"] = Dir({"a"})
    /\ \A n \in Names \ {"Music"} : isdir(folder[n])

----------------------------------------------------------------------------
(* C18: every guest folder that RestoreHomeLinks links is linked to the   *)
(* host special folder of the same logical folder (Desktop to DESKTOP,     *)
(* Personal to DOCUMENTS, My Music to MUSIC, My Videos to VIDEOS, My       *)
(* Pictures to PICTURES), whatever the Shell Folders lookups return.       *)

\* the logical folders whose guest folder is named n
KeysOf(sh, n) ==
    {k \in 1..Len(DESKTOP_KEYS) :
        IF sh = ShellNoneFound THEN DEFAULT_DESKTOP_FOLDERS[k] = n
        ELSE sh[k] # <<>> /\ sh[k][Len(sh[k])] = n}

C18_RestoreLockStep ==
    [][(call'.op = "restore" /\ ~raised' /\ marker # HomeDir) =>
          \A n \in Names : \A k \in KeysOf(shell, n) :
              islink(folder'[n]) => folder'[n].target = xdg[k]]_vars

----------------------------------------------------------------------------
(* C19: after any sequence of completed calls, a Disintegrate() that runs *)
(* with a marker other than user_dir leaves every logical folder a real    *)
(* directory.                                                              *)
C19_DisintegrateEndsNative ==
    [][(call'.op = "disintegrate" /\ userDirExists /\ marker # UserDir /\ ~raised') =>
          \A n \in Names : isdir(folder'[n])]_vars

----------------------------------------------------------------------------
(* C16: create_user_symlinks links the missing profile name to the        *)
(* existing one when exactly one of the two profile directories exists     *)
(* and does nothing when both or neither exist; it never deletes, renames  *)
(* or replaces anything; a second call after a link was made is a no-op.   *)
C16_UserSymlinks ==
    [][(usersCall'.op = "create") =>
          /\ \A u \in Profiles :
                (exists(users, u) /\ ~exists(users, Other(u))) =>
                    /\ ~usersCall'.raised
                    /\ users'[Other(u)] = Link(ProfilePath[u])
                    /\ users'[u] = users[u]
          /\ (exists(users, "wine") = exists(users, "proton")) => users' = users
          /\ \A u \in Profiles : (users[u] # None) => users'[u] = users[u]
          /\ (usersCall.op = "create") => users' = users]_vars

----------------------------------------------------------------------------
(* C20: with nothing else writing to the registry values or the marker,   *)
(* after every completed set_dpi call the marker file exists if and only   *)
(* if that call was SetDPI(v) with v not zero, and then both LogPixels     *)
(* values are the number in the marker; SetDPI writes the marker only      *)
(* when both LogPixels values already hold the number it writes.           *)
C20_MarkerTracksWrites ==
    [][/\ (dpiPc'.ph = "idle") =>
            /\ dpiMarker'.exists <=> (dpiCall'.op = "set" /\ dpiCall'.dpi # NoDPI)
            /\ dpiMarker'.exists => MarkerMatches(reg', dpiMarker')
       /\ (dpiMarker'.exists /\ dpiMarker' # dpiMarker) =>
            /\ MarkerMatches(reg, dpiMarker')
            /\ reg' = reg
       /\ (dpiPc'.ph = "done") =>
            [reg |-> reg', marker |-> dpiMarker'] = set_dpi(dpiPc'.from, dpiPc'.dpi)]_vars

\* SetDPI(144) completed after SetDPI(120)
C20_Witness ==
    /\ dpiPc.ph = "idle"
    /\ dpiCall = [op |-> "set", dpi |-> 144, prev |-> [op |-> "set", dpi |-> 120]]
    /\ dpiMarker = File(str(144))
    /\ BothLogPixels(reg, 144)

====
